---------------------------- MODULE Spec2Model ----------------------------
(***************************************************************************)
(* A model of mcp_server.py: the configuration manager (MCPConfig), the    *)
(* backend interface to the external executable (MCPBackend) with its      *)
(* output scraper, and the FastAPI routes.                                 *)
(*                                                                         *)
(* Python values are represented with a tag, so that values of different   *)
(* Python types are never compared with each other:                        *)
(*   dict  -> [obj |-> function from keys to values]                       *)
(*   list  -> [arr |-> sequence of values]                                 *)
(*   str   -> [str |-> sequence of the parts the string is built from]     *)
(*   int   -> [num |-> n]                                                  *)
(*   true / false / null and number tokens of a JSON text -> [lit |-> tok] *)
(*   None  -> [none |-> TRUE]                                              *)
(***************************************************************************)
EXTENDS Integers, Sequences, FiniteSets, TLC

VARIABLES
    \* ---- MCPConfig construction (module level, line 347)
    cfgFile,      \* what open()/yaml.safe_load find at config_path
    environ,      \* os.environ, restricted to the four override variables
    cfgPc,        \* "start" | "constructed" | "raised" ("idle": not modelled)
    config,       \* self.config
    cfgError,     \* the exception that escaped MCPConfig.__init__, or "none"
    got,          \* the last get(key) made on the constructed object
    \* ---- _extract_json_from_output applied to a text
    output,       \* the captured text, a sequence of tokens
    request_type, \* "tools/list" | "tools/call"
    scrPc,        \* "input" | "returned" ("idle": not modelled)
    extracted,    \* the value returned
    \* ---- one HTTP request against the backend
    pc,           \* "idle" | "waiting" (in "await wait_for(...)") | "done" ("off")
    request,      \* [route, method, params] of the request being served
    timeout,      \* self.timeout
    process,      \* the subprocess of this request
    spawns,       \* how many times this request called create_subprocess_exec
    elapsed,      \* time the request has awaited the subprocess
    raised,       \* the exception raised inside call_mcp_tool's try block
    scraped,      \* whether this request called _extract_json_from_output
    result,       \* what call_mcp_tool returned
    response,     \* the HTTP response of the route
    \* ---- a second call request, given the subprocess outcome of the first
    twin          \* [request, spawns, raised, result, response] of that request

cfgVars == <<cfgFile, environ, cfgPc, config, cfgError, got>>
scrVars == <<output, request_type, scrPc, extracted>>
srvVars == <<pc, request, timeout, process, spawns, elapsed, raised, scraped,
             result, response>>
vars == <<cfgVars, scrVars, srvVars, twin>>

---------------------------------------------------------------------------
(* Bounds *)

\* the longest captured text, in lines
MaxLines == 4
\* the largest configured timeout, in ticks of the clock
MaxTimeout == 2

---------------------------------------------------------------------------
(* Python values *)

None == [none |-> TRUE]
NoValue == [unset |-> TRUE]
NoExc == [type |-> "none", msg |-> <<>>]
O(f) == [obj |-> f]
A(s) == [arr |-> s]
S(s) == [str |-> <<s>>]
N(n) == [num |-> n]
B(b) == [lit |-> IF b THEN "true" ELSE "false"]

IsDict(v) == "obj" \in DOMAIN v
IsNone(v) == "none" \in DOMAIN v

\* key in d, for a dict d
HasKey(d, k) == IsDict(d) /\ k \in DOMAIN d.obj

\* d with d[k] = v
SetItem(f, k, v) == [x \in (DOMAIN f) \cup {k} |-> IF x = k THEN v ELSE f[x]]

EmptyDict == O(<<>>)

---------------------------------------------------------------------------
(* Texts.  A text is a sequence of tokens; a token is a string.  A token   *)
(* of StringToks stands for that JSON string literal, quotes included; a   *)
(* token of JunkToks is a word of free text, which is no JSON.             *)

NL == "\n"
WsToks == {" ", NL}
StringToks == {"tools", "success", "error", "name", "x"}
LitToks == {"true", "false", "null", "1"}
JunkToks == {"txt"}

\* str.split(sep): the parts between the separators, one more than there
\* are separators
RECURSIVE split(_, _)
split(text, sep) ==
    IF \A i \in 1..Len(text) : text[i] # sep THEN <<text>>
    ELSE LET i == CHOOSE i \in 1..Len(text) :
                    text[i] = sep /\ \A j \in 1..(i-1) : text[j] # sep
         IN  <<SubSeq(text, 1, i-1)>> \o split(SubSeq(text, i+1, Len(text)), sep)

\* ''.join(json_lines)
RECURSIVE join(_)
join(json_lines) ==
    IF json_lines = <<>> THEN <<>> ELSE Head(json_lines) \o join(Tail(json_lines))

\* str.strip(): leading and trailing whitespace removed
RECURSIVE strip(_)
strip(line) ==
    IF line = <<>> THEN line
    ELSE IF Head(line) \in WsToks THEN strip(Tail(line))
    ELSE IF line[Len(line)] \in WsToks THEN strip(SubSeq(line, 1, Len(line)-1))
    ELSE line

startswith(line, tok) == line # <<>> /\ Head(line) = tok
endswith(line, tok) == line # <<>> /\ line[Len(line)] = tok

---------------------------------------------------------------------------
(* json.loads: a recursive-descent parse of the token sequence.  Each      *)
(* parser returns [ok, val, next]: whether a value was read, the value,    *)
(* and the position after it.                                              *)

ParseFail == [ok |-> FALSE, val |-> None, next |-> 0]

RECURSIVE SkipWs(_, _)
SkipWs(t, i) == IF i <= Len(t) /\ t[i] \in WsToks THEN SkipWs(t, i+1) ELSE i

RECURSIVE ParseValue(_, _), ParseMembers(_, _, _), ParseElements(_, _, _)

\* a value starting at or after position i
ParseValue(t, i) ==
    LET j == SkipWs(t, i) IN
    IF j > Len(t) THEN ParseFail
    ELSE IF t[j] = "{" THEN
        LET k == SkipWs(t, j+1) IN
        IF k <= Len(t) /\ t[k] = "}"
        THEN [ok |-> TRUE, val |-> EmptyDict, next |-> k+1]
        ELSE ParseMembers(t, k, <<>>)
    ELSE IF t[j] = "[" THEN
        LET k == SkipWs(t, j+1) IN
        IF k <= Len(t) /\ t[k] = "]"
        THEN [ok |-> TRUE, val |-> A(<<>>), next |-> k+1]
        ELSE ParseElements(t, k, <<>>)
    ELSE IF t[j] \in StringToks THEN [ok |-> TRUE, val |-> S(t[j]), next |-> j+1]
    ELSE IF t[j] \in LitToks THEN [ok |-> TRUE, val |-> [lit |-> t[j]], next |-> j+1]
    ELSE ParseFail

\* the members of an object from position i (a key is due), acc the pairs
\* read so far; a repeated key keeps its last value
ParseMembers(t, i, acc) ==
    IF i > Len(t) \/ t[i] \notin StringToks THEN ParseFail
    ELSE LET c == SkipWs(t, i+1) IN
         IF c > Len(t) \/ t[c] # ":" THEN ParseFail
         ELSE LET v == ParseValue(t, c+1) IN
              IF ~v.ok THEN ParseFail
              ELSE LET e == SkipWs(t, v.next)
                       acc2 == SetItem(acc, t[i], v.val)
                   IN  IF e > Len(t) THEN ParseFail
                       ELSE IF t[e] = "}"
                            THEN [ok |-> TRUE, val |-> O(acc2), next |-> e+1]
                       ELSE IF t[e] = ","
                            THEN ParseMembers(t, SkipWs(t, e+1), acc2)
                       ELSE ParseFail

\* the elements of an array from position i (a value is due)
ParseElements(t, i, acc) ==
    LET v == ParseValue(t, i) IN
    IF ~v.ok THEN ParseFail
    ELSE LET e == SkipWs(t, v.next)
             acc2 == Append(acc, v.val)
         IN  IF e > Len(t) THEN ParseFail
             ELSE IF t[e] = "]"
                  THEN [ok |-> TRUE, val |-> A(acc2), next |-> e+1]
             ELSE IF t[e] = ","
                  THEN ParseElements(t, e+1, acc2)
             ELSE ParseFail

\* json.loads(text): one value and nothing but whitespace after it;
\* ok = FALSE stands for json.JSONDecodeError
json_loads(text) ==
    LET v == ParseValue(text, 1) IN
    IF v.ok /\ SkipWs(text, v.next) > Len(text) THEN v ELSE ParseFail

\* _is_complete_json
is_complete_json(text) == json_loads(text).ok

---------------------------------------------------------------------------
(* The output scraper *)

ToolDescriptions ==
    [expr_predictor_obj_func |->
        "Compute objective function value for ExprPredictor with given parameters",
     expr_par_get_free_pars |-> "Extract free parameters from ExprPar object",
     expr_predictor_train |-> "Train ExprPredictor model with given data",
     expr_predictor_predict |->
        "Predict expression values using trained ExprPredictor",
     expr_par_load |-> "Load ExprPar parameters from file",
     expr_func_predict_expr |-> "Predict expression using ExprFunc"]

\* the order of the default response's list
FallbackOrder ==
    <<"expr_predictor_obj_func", "expr_par_get_free_pars", "expr_predictor_train",
      "expr_predictor_predict", "expr_par_load", "expr_func_predict_expr">>

\* the default response of _extract_json_from_output
Fallback(rt) ==
    IF rt = "tools/list"
    THEN O([tools |-> A([i \in 1..Len(FallbackOrder) |->
                O([name |-> S(FallbackOrder[i]),
                   description |-> S(ToolDescriptions[FallbackOrder[i]])])])])
    ELSE O([success |-> B(FALSE), error |-> S("Could not parse backend response")])

\* the shape test of the block just parsed
Qualifies(rt, res) ==
    \/ rt = "tools/list" /\ HasKey(res, "tools")
    \/ rt = "tools/call" /\ (HasKey(res, "success") \/ HasKey(res, "error"))

\* the for loop from line k on, with the loop's in_json and json_lines
RECURSIVE ScanLines(_, _, _, _, _)
ScanLines(lines, k, in_json, json_lines, rt) ==
    IF k > Len(lines) THEN Fallback(rt)
    ELSE LET line == lines[k] IN
         IF startswith(strip(line), "{")
         THEN ScanLines(lines, k+1, TRUE, <<line>>, rt)
         ELSE IF in_json
         THEN LET jl == Append(json_lines, line) IN
              IF endswith(strip(line), "}") /\ is_complete_json(join(jl))
              THEN LET res == json_loads(join(jl)).val IN
                   IF Qualifies(rt, res) THEN res
                   ELSE ScanLines(lines, k+1, FALSE, <<>>, rt)
              ELSE ScanLines(lines, k+1, TRUE, jl, rt)
         ELSE ScanLines(lines, k+1, in_json, json_lines, rt)

_extract_json_from_output(out, rt) == ScanLines(split(out, NL), 1, FALSE, <<>>, rt)

\* The lines a captured text is made of
LinePool ==
    { <<"txt">>,
      <<"{">>,
      <<"}">>,
      <<" ", "tools", ":", "[", "]">>,
      <<"{", "tools", ":", "[", "]", "}">>,
      <<"{", "tools", ":", "[">>,
      <<" ", "{", "name", ":", "x", "}">>,
      <<"]", "}">>,
      <<" ", "success", ":", "true">>,
      <<"{", "success", ":", "true", "}">> }

\* '\n'.join(lines)
RECURSIVE JoinNL(_)
JoinNL(lines) ==
    IF Len(lines) = 1 THEN lines[1]
    ELSE lines[1] \o <<NL>> \o JoinNL(Tail(lines))

Outputs == { JoinNL(ls) : ls \in UNION { [1..n -> LinePool] : n \in 1..MaxLines } }

RequestTypes == {"tools/list", "tools/call"}


---------------------------------------------------------------------------
(* MCPConfig *)

Exc(type, msg) == [type |-> type, msg |-> msg]

\* _default_config
_default_config ==
    O([server |-> O([host |-> S("0.0.0.0"), port |-> N(8080), debug |-> B(FALSE)]),
       mcp |-> O([executable_path |-> S("./mcp_demo"),
                  working_directory |-> S("."), timeout |-> N(30)]),
       logging |-> O([level |-> S("INFO")]),
       tools |-> O([discovery_enabled |-> B(TRUE)])])

\* The states of the configuration file: the three in which open() or
\* yaml.safe_load raises, and the documents it can parse to
FileStates ==
    {"missing", "unreadable", "unparseable", "empty", "full", "no_server", "no_mcp"}

FullDoc ==
    O([server |-> O([host |-> S("10.0.0.1"), port |-> N(9000), debug |-> B(TRUE)]),
       mcp |-> O([executable_path |-> S("/usr/bin/mcp"),
                  working_directory |-> S("/var/mcp"), timeout |-> N(5)]),
       logging |-> O([level |-> S("DEBUG")]),
       tools |-> O([discovery_enabled |-> B(FALSE)])])

\* yaml.safe_load(f) of a file that opens and parses; an empty file is None
safe_load(file) ==
    CASE file = "empty" -> None
      [] file = "full" -> FullDoc
      [] file = "no_server" -> O([mcp |-> FullDoc.obj.mcp, logging |-> FullDoc.obj.logging])
      [] file = "no_mcp" -> O([server |-> FullDoc.obj.server, logging |-> FullDoc.obj.logging])

\* _load_config: FileNotFoundError and every other Exception give the defaults
_load_config(file) ==
    IF file = "missing" THEN _default_config
    ELSE IF file \in {"unreadable", "unparseable"} THEN _default_config
    ELSE safe_load(file)

Digits == <<"0", "1", "2", "3", "4", "5", "6", "7", "8", "9">>
IsDigit(c) == \E d \in 1..10 : Digits[d] = c
DigitValue(c) == (CHOOSE d \in 1..10 : Digits[d] = c) - 1

\* int(text) of a string given by its characters: [ok, val]; ok = FALSE
\* stands for ValueError
RECURSIVE DecimalValue(_)
DecimalValue(cs) ==
    IF cs = <<>> THEN 0
    ELSE 10 * DecimalValue(SubSeq(cs, 1, Len(cs)-1)) + DigitValue(cs[Len(cs)])

int(cs) ==
    IF cs # <<>> /\ \A i \in 1..Len(cs) : IsDigit(cs[i])
    THEN [ok |-> TRUE, val |-> DecimalValue(cs)]
    ELSE [ok |-> FALSE, val |-> 0]

\* The four assignments of _apply_env_overrides, in their order
Overrides ==
    << [var |-> "MCP_SERVER_HOST", section |-> "server", key |-> "host", int |-> FALSE],
       [var |-> "MCP_SERVER_PORT", section |-> "server", key |-> "port", int |-> TRUE],
       [var |-> "MCP_EXECUTABLE_PATH", section |-> "mcp", key |-> "executable_path",
        int |-> FALSE],
       [var |-> "MCP_WORKING_DIR", section |-> "mcp", key |-> "working_directory",
        int |-> FALSE] >>

EnvVars == { Overrides[i].var : i \in 1..Len(Overrides) }

\* self.config[section][key] = value: [exc, config]
SetConfigItem(cfg, section, key, value) ==
    IF ~IsDict(cfg)
    THEN [exc |-> Exc("TypeError", <<"object is not subscriptable">>), config |-> cfg]
    ELSE IF section \notin DOMAIN cfg.obj
    THEN [exc |-> Exc("KeyError", <<section>>), config |-> cfg]
    ELSE IF ~IsDict(cfg.obj[section])
    THEN [exc |-> Exc("TypeError", <<"object does not support item assignment">>),
          config |-> cfg]
    ELSE [exc |-> NoExc,
          config |-> O(SetItem(cfg.obj, section,
                               O(SetItem(cfg.obj[section].obj, key, value))))]

\* one "if VAR in os.environ: ..." of _apply_env_overrides; the right-hand
\* side (int(...)) is evaluated before the item is assigned
ApplyOverride(cfg, env, o) ==
    IF o.var \notin DOMAIN env THEN [exc |-> NoExc, config |-> cfg]
    ELSE IF o.int
    THEN LET n == int(env[o.var]) IN
         IF ~n.ok
         THEN [exc |-> Exc("ValueError", <<"invalid literal for int()">>), config |-> cfg]
         ELSE SetConfigItem(cfg, o.section, o.key, N(n.val))
    ELSE SetConfigItem(cfg, o.section, o.key, [str |-> env[o.var]])

\* _apply_env_overrides from its i-th assignment on; the first exception ends it
RECURSIVE ApplyFrom(_, _, _)
ApplyFrom(cfg, env, i) ==
    IF i > Len(Overrides) THEN [exc |-> NoExc, config |-> cfg]
    ELSE LET r == ApplyOverride(cfg, env, Overrides[i]) IN
         IF r.exc # NoExc THEN r ELSE ApplyFrom(r.config, env, i+1)

_apply_env_overrides(cfg, env) == ApplyFrom(cfg, env, 1)

\* get(key, default): key is a dotted path, given by its tokens
RECURSIVE GetPath(_, _, _)
GetPath(value, keys, default) ==
    IF keys = <<>> THEN value
    ELSE IF IsDict(value) /\ keys[1][1] \in DOMAIN value.obj
    THEN GetPath(value.obj[keys[1][1]], Tail(keys), default)
    ELSE default

get(cfg, key, default) == GetPath(cfg, split(key, "."), default)

\* the keys the program and its callers read
ConfigKeys ==
    { <<"server", ".", "host">>, <<"server", ".", "port">>, <<"server", ".", "debug">>,
      <<"mcp", ".", "executable_path">>, <<"mcp", ".", "working_directory">>,
      <<"mcp", ".", "timeout">>, <<"logging", ".", "level">> }

\* the values the environment variables are given
EnvValues ==
    [MCP_SERVER_HOST |-> { <<"127.0.0.1">> },
     MCP_SERVER_PORT |-> { <<"9", "0", "9", "0">>, <<"a", "b", "c">> },
     MCP_EXECUTABLE_PATH |-> { <<"/opt/mcp_demo">> },
     MCP_WORKING_DIR |-> { <<"/srv">> }]

Environments ==
    UNION { { e \in [vs -> UNION { EnvValues[v] : v \in EnvVars }] :
                \A v \in vs : e[v] \in EnvValues[v] } : vs \in SUBSET EnvVars }

---------------------------------------------------------------------------
(* MCPBackend *)

\* "not v" for the values a tool name or a params argument takes: None, the
\* empty string and the empty dict are false
Falsy(v) == IsNone(v) \/ v = S("") \/ v = EmptyDict

\* d.get(k, default) for a dict d
DictGet(d, k, default) == IF k \in DOMAIN d.obj THEN d.obj[k] ELSE default

\* What the part of an operation that runs before its first await does:
\* it returns a value, raises, or has spawned the executable and awaits it
Return(v) == [kind |-> "return", exc |-> NoExc, value |-> v]
Raise(e) == [kind |-> "raise", exc |-> e, value |-> NoValue]
Spawned == [kind |-> "spawn", exc |-> NoExc, value |-> NoValue]

P(type, description) == O([type |-> S(type), description |-> S(description)])

Schema(name, properties, required) ==
    O([name |-> S(name),
       description |-> S(ToolDescriptions[name]),
       inputSchema |-> O([type |-> S("object"),
                          properties |-> O(properties),
                          required |-> A([i \in 1..Len(required) |-> S(required[i])])])])

\* the table of _get_tool_schema
schemas ==
    [expr_predictor_obj_func |->
        Schema("expr_predictor_obj_func",
               [parameters |-> P("object", "ExprPar parameters object")],
               <<"parameters">>),
     expr_par_get_free_pars |->
        Schema("expr_par_get_free_pars",
               [parameters |-> P("object", "ExprPar parameters object"),
                coopMat |-> P("object", "Cooperativity matrix"),
                actIndicators |-> P("array", "Activator indicators"),
                repIndicators |-> P("array", "Repressor indicators")],
               <<"parameters", "coopMat", "actIndicators", "repIndicators">>),
     expr_predictor_train |->
        Schema("expr_predictor_train",
               [initialParameters |-> P("object", "Initial ExprPar parameters"),
                trainingData |-> P("object", "Training dataset"),
                options |-> P("object", "Training options")],
               <<"initialParameters", "trainingData">>),
     expr_predictor_predict |->
        Schema("expr_predictor_predict",
               [parameters |-> P("object", "Trained ExprPar parameters"),
                sequences |-> P("array", "Input sequences for prediction"),
                conditions |-> P("array", "Experimental conditions")],
               <<"parameters", "sequences">>),
     expr_par_load |->
        Schema("expr_par_load",
               [filename |-> P("string", "Path to parameter file"),
                coopMat |-> P("object", "Cooperativity matrix"),
                repIndicators |-> P("array", "Repressor indicators")],
               <<"filename", "coopMat", "repIndicators">>),
     expr_func_predict_expr |->
        Schema("expr_func_predict_expr",
               [sites |-> P("array", "Binding sites (SiteVec)"),
                length |-> P("integer", "Sequence length"),
                factorConcentrations |-> P("array", "TF concentration values")],
               <<"sites", "length", "factorConcentrations">>)]

\* _get_tool_schema looking the name up with schemas.get(tool_name, {})
\* instead of testing "tool_name not in schemas"
_get_tool_schema_lenient(tool_name) ==
    IF Falsy(tool_name)
    THEN Raise(Exc("ValueError", <<"Tool name is required">>))
    ELSE IF tool_name.str[1] \notin DOMAIN schemas
    THEN Return(EmptyDict)
    ELSE Return(schemas[tool_name.str[1]])

\* _get_tool_schema; tool_name is None or a string
_get_tool_schema(tool_name) ==
    IF Falsy(tool_name)
    THEN Raise(Exc("ValueError", <<"Tool name is required">>))
    ELSE IF tool_name.str[1] \notin DOMAIN schemas
    THEN Raise(Exc("ValueError", <<"Unknown tool: ", tool_name.str[1]>>))
    ELSE Return(schemas[tool_name.str[1]])

\* asyncio.create_subprocess_exec(str(self.executable_path),
\*     cwd=self.working_directory, stdout=PIPE, stderr=PIPE)
create_subprocess_exec ==
    [state |-> "running", argv |-> <<"executable_path">>, cwd |-> "working_directory"]

\* _get_tools_list up to its await: it spawns the executable
_get_tools_list == Spawned

\* _execute_tool looking the name up in the schema table before it spawns
_execute_tool_validating(tool_name, arguments) ==
    IF Falsy(tool_name)
    THEN Raise(Exc("ValueError", <<"Tool name is required">>))
    ELSE IF tool_name.str[1] \notin DOMAIN schemas
    THEN Raise(Exc("ValueError", <<"Unknown tool: ", tool_name.str[1]>>))
    ELSE Spawned

\* _execute_tool up to its await
_execute_tool(tool_name, arguments) ==
    IF Falsy(tool_name)
    THEN Raise(Exc("ValueError", <<"Tool name is required">>))
    ELSE Spawned

\* _get_tools_list and _execute_tool after communicate() has returned
\* within the timeout: returncode, stdout, stderr of the subprocess; rt is
\* "tools/list" in the former and "tools/call" in the latter
AfterCommunicate(rt, returncode, stdout, stderr) ==
    IF returncode # 0
    THEN Raise(Exc("RuntimeError",
                   <<"MCP backend failed: ", IF stderr # "" THEN stderr ELSE "Unknown error">>))
    ELSE Return(_extract_json_from_output(stdout, rt))

\* _get_tools_list and _execute_tool when wait_for raises TimeoutError
AfterTimeout == Raise(Exc("RuntimeError", <<"MCP backend timeout">>))

\* the body of call_mcp_tool's try block, up to the first await
Dispatch(method, params) ==
    IF method = "tools/list" THEN _get_tools_list
    ELSE IF method = "tools/get_schema"
    THEN _get_tool_schema(IF ~Falsy(params) THEN DictGet(params, "name", None) ELSE None)
    ELSE IF method = "tools/call"
    THEN _execute_tool(IF ~Falsy(params) THEN DictGet(params, "name", None) ELSE None,
                       IF ~Falsy(params) THEN DictGet(params, "arguments", EmptyDict)
                       ELSE EmptyDict)
    ELSE Raise(Exc("ValueError", <<"Unknown method: ", method>>))

\* call_mcp_tool's "except Exception as e": what the call gives its caller
\* when the try block ended as d
call_mcp_tool(d) ==
    IF d.kind = "raise"
    THEN Return(O([success |-> B(FALSE), error |-> [str |-> d.exc.msg]]))
    ELSE d

---------------------------------------------------------------------------
(* The routes *)

StrLen(s) ==
    CASE s = "tools" -> 5 [] s = "success" -> 7 [] s = "error" -> 5
      [] s = "name" -> 4 [] s = "x" -> 1 [] OTHER -> 0

\* len(v): [ok, val]; ok = FALSE stands for TypeError
len(v) ==
    IF "arr" \in DOMAIN v THEN [ok |-> TRUE, val |-> Len(v.arr)]
    ELSE IF "obj" \in DOMAIN v THEN [ok |-> TRUE, val |-> Cardinality(DOMAIN v.obj)]
    ELSE IF "str" \in DOMAIN v THEN [ok |-> TRUE, val |-> StrLen(v.str[1])]
    ELSE [ok |-> FALSE, val |-> 0]

Response(status, body) == [status |-> status, body |-> body]

\* health_check, given what call_mcp_tool gave
HealthResponse(r) ==
    IF r.kind = "raise"
    THEN Response(503, O([status |-> S("unhealthy"), error |-> [str |-> r.exc.msg]]))
    ELSE LET n == len(DictGet(r.value, "tools", A(<<>>))) IN
         IF n.ok
         THEN Response(200, O([status |-> S("healthy"), backend |-> S("accessible"),
                               tools_available |-> N(n.val)]))
         ELSE Response(503, O([status |-> S("unhealthy"),
                               error |-> S("object has no len()")]))

\* list_tools, get_tool_schema, call_tool, mcp_request, given what
\* call_mcp_tool gave
RouteResponse(r) ==
    IF r.kind = "raise"
    THEN Response(500, O([detail |-> [str |-> r.exc.msg]]))
    ELSE Response(200, r.value)

RootInfo ==
    O([name |-> S("ExprPredictor MCP Server"), version |-> S("1.0.0"),
       description |-> S("Python wrapper for ExprPredictor MCP tools"),
       endpoints |-> O([tools |-> S("/tools/list"), call |-> S("/tools/call/{tool_name}"),
                        schema |-> S("/tools/schema/{tool_name}"),
                        health |-> S("/health"), docs |-> S("/docs")])])

---------------------------------------------------------------------------
(* Idle values of the three parts of the state *)

CfgIdle ==
    /\ cfgFile = "missing" /\ environ = [v \in {} |-> NoValue]
    /\ cfgPc = "idle" /\ config = None /\ cfgError = NoExc /\ got = NoValue

ScrIdle ==
    /\ output = <<>> /\ request_type = "tools/list"
    /\ scrPc = "idle" /\ extracted = NoValue

SrvIdle ==
    /\ pc = "off" /\ request = NoValue /\ timeout = 0
    /\ process = [state |-> "none"] /\ spawns = 0 /\ elapsed = 0
    /\ raised = NoExc /\ scraped = FALSE /\ result = NoValue
    /\ response = NoValue /\ twin = NoValue

---------------------------------------------------------------------------
(* The scraper applied to a captured text *)

ScrapeInit ==
    /\ output \in Outputs
    /\ request_type \in RequestTypes
    /\ scrPc = "input"
    /\ extracted = NoValue
    /\ CfgIdle /\ SrvIdle

Extract ==
    /\ scrPc = "input"
    /\ extracted' = _extract_json_from_output(output, request_type)
    /\ scrPc' = "returned"
    /\ UNCHANGED <<output, request_type, cfgVars, srvVars, twin>>

ScrapeNext == Extract

SpecScrape == ScrapeInit /\ [][ScrapeNext]_vars


---------------------------------------------------------------------------
(* Construction of the configuration (config = MCPConfig(), line 347) *)

ConfigInit ==
    /\ cfgFile \in FileStates
    /\ environ \in Environments
    /\ cfgPc = "start"
    /\ config = None /\ cfgError = NoExc /\ got = NoValue
    /\ ScrIdle /\ SrvIdle

\* MCPConfig.__init__: _load_config, then _apply_env_overrides
Construct ==
    /\ cfgPc = "start"
    /\ LET r == _apply_env_overrides(_load_config(cfgFile), environ) IN
       /\ config' = r.config
       /\ cfgError' = r.exc
       /\ cfgPc' = IF r.exc = NoExc THEN "constructed" ELSE "raised"
    /\ UNCHANGED <<cfgFile, environ, got, scrVars, srvVars, twin>>

\* config.get(key) on the constructed object
ConfigGet ==
    /\ cfgPc = "constructed"
    /\ \E key \in ConfigKeys : got' = [key |-> key, value |-> get(config, key, None)]
    /\ UNCHANGED <<cfgFile, environ, cfgPc, config, cfgError, scrVars, srvVars, twin>>

ConfigNext == Construct \/ ConfigGet

SpecConfig == ConfigInit /\ [][ConfigNext]_vars


---------------------------------------------------------------------------
(* Serving one request at a time.  A request that spawns the executable    *)
(* suspends at "await asyncio.wait_for(process.communicate(), timeout)"    *)
(* and resumes when the process has exited or the timeout has expired.     *)

KnownTools == DOMAIN schemas
PathNames == KnownTools \cup {"unknown_tool_xyz"}
ParamNames == PathNames \cup {""}

\* request bodies of call_tool, "arguments" values of mcp_request
ArgumentValues ==
    { EmptyDict, O([parameters |-> O([basalTxp |-> [lit |-> "1"]])]) }

Methods == {"tools/list", "tools/get_schema", "tools/call", "tools/unknown"}

\* "params" of a request body of mcp_request
ParamValues ==
    {None, EmptyDict}
    \cup { O([name |-> S(n)]) : n \in ParamNames }
    \cup { O([name |-> S(n), arguments |-> a]) : n \in ParamNames, a \in ArgumentValues }
    \cup { O([arguments |-> a]) : a \in ArgumentValues }

\* what the executable prints on stdout
BackendOutputs ==
    { <<"txt">>,
      <<"txt", NL, "{", NL, " ", "tools", ":", "[", "]", NL, "}", NL>>,
      <<"txt", NL, "{", "tools", ":", "[", "]", "}", NL>>,
      <<"{", NL, " ", "tools", ":", "[", "{", "name", ":", "x", "}", "]", NL, "}", NL>>,
      <<"{", NL, " ", "tools", ":", "1", NL, "}", NL>>,
      <<"{", NL, " ", "success", ":", "true", NL, "}", NL>> }

\* what it prints on stderr
BackendErrors == {"", "Segmentation fault"}

ReturnCodes == {0, 1}

Req(route, method, params) == [route |-> route, method |-> method, params |-> params]

\* the request type the operation of this request scrapes for
RequestType(req) == IF req.method = "tools/list" THEN "tools/list" ELSE "tools/call"

ResponseOf(req, r) == IF req.route = "health" THEN HealthResponse(r) ELSE RouteResponse(r)

\* the request ends: the try block of call_mcp_tool ended as d
Finish(req, d) ==
    /\ raised' = d.exc
    /\ result' = call_mcp_tool(d).value
    /\ response' = ResponseOf(req, call_mcp_tool(d))
    /\ pc' = "done"

\* a route awaits backend.call_mcp_tool(method, params)
Serve(req) ==
    /\ request' = req
    /\ elapsed' = 0
    /\ scraped' = FALSE
    /\ LET d == Dispatch(req.method, req.params) IN
       IF d.kind = "spawn"
       THEN /\ process' = create_subprocess_exec
            /\ spawns' = 1
            /\ pc' = "waiting"
            /\ raised' = NoExc /\ result' = NoValue /\ response' = NoValue
       ELSE /\ process' = [state |-> "none"]
            /\ spawns' = 0
            /\ Finish(req, d)
    /\ UNCHANGED <<timeout, cfgVars, scrVars, twin>>

\* the server takes a request when it serves none
Ready == pc \in {"idle", "done"}

root ==
    /\ Ready
    /\ request' = Req("root", "", None)
    /\ response' = Response(200, RootInfo)
    /\ pc' = "done"
    /\ process' = [state |-> "none"] /\ spawns' = 0 /\ elapsed' = 0
    /\ raised' = NoExc /\ scraped' = FALSE /\ result' = NoValue
    /\ UNCHANGED <<timeout, cfgVars, scrVars, twin>>

health_check ==
    /\ Ready
    /\ Serve(Req("health", "tools/list", None))

list_tools ==
    /\ Ready
    /\ Serve(Req("list", "tools/list", None))

get_tool_schema ==
    /\ Ready
    /\ \E tool_name \in PathNames :
        Serve(Req("schema", "tools/get_schema", O([name |-> S(tool_name)])))

call_tool ==
    /\ Ready
    /\ \E tool_name \in PathNames, arguments \in ArgumentValues :
        Serve(Req("call", "tools/call",
                  O([name |-> S(tool_name), arguments |-> arguments])))

mcp_request ==
    /\ Ready
    /\ \E method \in Methods, params \in ParamValues :
        Serve(Req("mcp", method, params))

\* time passes while the subprocess runs
Tick ==
    /\ pc = "waiting"
    /\ elapsed < timeout
    /\ elapsed' = elapsed + 1
    /\ UNCHANGED <<pc, request, timeout, process, spawns, raised, scraped, result,
                   response, cfgVars, scrVars, twin>>

\* the subprocess exits before the timeout: communicate() returns
ProcessExits ==
    /\ pc = "waiting"
    /\ elapsed < timeout
    /\ \E returncode \in ReturnCodes, stdout \in BackendOutputs, stderr \in BackendErrors :
        /\ process' = [state |-> "exited", argv |-> process.argv, cwd |-> process.cwd,
                       returncode |-> returncode, stdout |-> stdout, stderr |-> stderr]
        /\ scraped' = (returncode = 0)
        /\ Finish(request, AfterCommunicate(RequestType(request), returncode, stdout, stderr))
    /\ UNCHANGED <<request, timeout, spawns, elapsed, cfgVars, scrVars, twin>>

\* the timeout handler spawning the executable again instead of raising
TimeoutExpiresRetry ==
    /\ pc = "waiting"
    /\ elapsed = timeout
    /\ process' = create_subprocess_exec
    /\ spawns' = spawns + 1
    /\ elapsed' = 0
    /\ UNCHANGED <<pc, request, timeout, raised, scraped, result, response,
                   cfgVars, scrVars, twin>>

\* the timeout handler raising without process.kill()
TimeoutExpiresNoKill ==
    /\ pc = "waiting"
    /\ elapsed = timeout
    /\ Finish(request, AfterTimeout)
    /\ UNCHANGED <<request, timeout, process, spawns, elapsed, scraped, cfgVars, scrVars, twin>>

\* the timeout expires first: wait_for raises TimeoutError, the handler
\* kills the process and raises
TimeoutExpires ==
    /\ pc = "waiting"
    /\ elapsed = timeout
    /\ process' = [state |-> "killed", argv |-> process.argv, cwd |-> process.cwd]
    /\ Finish(request, AfterTimeout)
    /\ UNCHANGED <<request, timeout, spawns, elapsed, scraped, cfgVars, scrVars, twin>>

Init ==
    /\ pc = "idle"
    /\ timeout \in 1..MaxTimeout
    /\ request = NoValue
    /\ process = [state |-> "none"] /\ spawns = 0 /\ elapsed = 0
    /\ raised = NoExc /\ scraped = FALSE /\ result = NoValue /\ response = NoValue
    /\ twin = NoValue
    /\ CfgIdle /\ ScrIdle

Next ==
    \/ root
    \/ health_check
    \/ list_tools
    \/ get_tool_schema
    \/ call_tool
    \/ mcp_request
    \/ Tick
    \/ ProcessExits
    \/ TimeoutExpires

Spec == Init /\ [][Next]_vars

\* The event loop runs a timer that is due and resumes a task whose await
\* has completed
FairSpec == Spec /\ WF_vars(Tick) /\ WF_vars(TimeoutExpires)

---------------------------------------------------------------------------
(* Two call requests whose subprocess runs have the same outcome: the      *)
(* first is served step by step, the second is then served in one step,    *)
(* its subprocess ending as that of the first did.                         *)

\* call_mcp_tool(req.method, req.params) from its call to its return, the
\* subprocess it spawns, if it spawns one, ending as proc did
RunWithOutcome(req, proc) ==
    LET d == Dispatch(req.method, req.params)
        e == IF d.kind # "spawn" THEN d
             ELSE IF proc.state = "killed" THEN AfterTimeout
             ELSE AfterCommunicate(RequestType(req), proc.returncode,
                                   proc.stdout, proc.stderr)
    IN  [request |-> req,
         spawns |-> IF d.kind = "spawn" THEN 1 ELSE 0,
         raised |-> e.exc,
         result |-> call_mcp_tool(e).value,
         response |-> ResponseOf(req, call_mcp_tool(e))]

\* POST /tools/call/{tool_name}, the first request
first_call ==
    /\ pc = "idle"
    /\ \E tool_name \in PathNames, arguments \in ArgumentValues :
        Serve(Req("call", "tools/call",
                  O([name |-> S(tool_name), arguments |-> arguments])))

\* POST /tools/call/{tool_name}, the second request
twin_call ==
    /\ pc = "done"
    /\ process.state \in {"exited", "killed"}
    /\ twin = NoValue
    /\ \E tool_name \in PathNames, arguments \in ArgumentValues :
        twin' = RunWithOutcome(
                    Req("call", "tools/call",
                        O([name |-> S(tool_name), arguments |-> arguments])),
                    process)
    /\ UNCHANGED <<srvVars, cfgVars, scrVars>>

TwinNext ==
    \/ first_call
    \/ Tick
    \/ ProcessExits
    \/ TimeoutExpires
    \/ twin_call

SpecTwin == Init /\ [][TwinNext]_vars


---------------------------------------------------------------------------
(* Properties *)

\* a line of free text: no JSON on it
JunkLine(line) == \A i \in 1..Len(line) : line[i] \in JunkToks \cup WsToks

\* lines i..j of the text are a well-formed JSON object with a "tools" key,
\* starting and ending on a line that is not free text, and every other
\* line of the text is free text
EmbeddedToolsObject(lines, i, j) ==
    /\ ~JunkLine(lines[i]) /\ ~JunkLine(lines[j])
    /\ \A k \in 1..Len(lines) : k \notin i..j => JunkLine(lines[k])
    /\ LET v == json_loads(JoinNL(SubSeq(lines, i, j))) IN
       v.ok /\ HasKey(v.val, "tools")

\* C1: a text made of free-text lines and exactly one well-formed JSON
\* object with a "tools" key, on one line or several, is scraped for
\* "tools/list" to exactly that object.
C1_EmbeddedObjectIsReturned ==
    (scrPc = "returned" /\ request_type = "tools/list") =>
        LET lines == split(output, NL) IN
        \A i \in 1..Len(lines) : \A j \in i..Len(lines) :
            EmbeddedToolsObject(lines, i, j) =>
                extracted = json_loads(JoinNL(SubSeq(lines, i, j))).val

\* the name a request asks for: None, or a string
RequestedName(req) ==
    IF ~Falsy(req.params) THEN DictGet(req.params, "name", None) ELSE None

\* C2: POST /tools/call/{name} with a name that is none of the six known
\* tools answers HTTP 500 with an "Unknown tool" message, whatever the
\* executable does.
C2_UnknownToolCallIs500 ==
    (pc = "done" /\ request.route = "call"
        /\ RequestedName(request).str[1] \notin KnownTools) =>
        /\ response.status = 500
        /\ HasKey(response.body, "detail")
        /\ response.body.obj.detail.str[1] = "Unknown tool: "

\* C3: GET /health answers 503 {status: "unhealthy", error} whenever the
\* listing operation failed, and answers "healthy" only when the subprocess
\* exited zero, with tools_available the number of tools of the listing.
C3_HealthReflectsListing ==
    (pc = "done" /\ request.route = "health") =>
        /\ raised # NoExc =>
            /\ response.status = 503
            /\ response.body.obj.status = S("unhealthy")
            /\ HasKey(response.body, "error")
        /\ response.body.obj.status = S("healthy") =>
            /\ process.state = "exited"
            /\ process.returncode = 0
            /\ response.body.obj.tools_available = N(Len(result.obj.tools.arr))

\* C4: on the routes list-tools, get-schema, call-tool and /mcp/request,
\* every error raised by the backend invoker or the scraper becomes an
\* HTTP 500 response carrying the error's text, never an HTTP 200.
C4_ErrorsBecome500 ==
    (pc = "done" /\ request.route \in {"list", "schema", "call", "mcp"}
        /\ raised # NoExc) =>
        /\ response.status = 500
        /\ response.body = O([detail |-> [str |-> raised.msg]])

\* C5: constructing MCPConfig never raises, whatever the configuration file
\* and the four environment variables are.
C5_ConstructionNeverRaises == cfgPc # "raised"

\* the dotted key of an override
KeyOf(o) == <<o.section, ".", o.key>>

\* the port variable, when set, holds an integer
PortIsInteger ==
    "MCP_SERVER_PORT" \in DOMAIN environ => int(environ["MCP_SERVER_PORT"]).ok

\* C6: for each overridable key and every configuration file, get(key) is
\* the environment value when the variable is set (the port as an integer)
\* and the value of the loaded file, or of the defaults, when it is not.
C6_EnvironmentOverridesFile ==
    (cfgPc # "start" /\ PortIsInteger) =>
        /\ cfgPc = "constructed"
        /\ \A i \in 1..Len(Overrides) :
            LET o == Overrides[i] IN
            get(config, KeyOf(o), None) =
                IF o.var \notin DOMAIN environ
                THEN get(_load_config(cfgFile), KeyOf(o), None)
                ELSE IF o.int THEN N(int(environ[o.var]).val)
                ELSE [str |-> environ[o.var]]

\* lines i..j of the text are a block: they start on a line that begins
\* with a brace, parse as JSON and have the shape the request type asks for
QualifyingBlock(lines, i, j, rt) ==
    /\ startswith(strip(lines[i]), "{")
    /\ LET v == json_loads(join(SubSeq(lines, i, j))) IN
       v.ok /\ Qualifies(rt, v.val)

\* C7: the scraper returns the fixed fallback of the request type exactly
\* when the text holds no block that parses as JSON and has the shape the
\* request type asks for.
C7_FallbackIffNoQualifyingBlock ==
    scrPc = "returned" =>
        LET lines == split(output, NL) IN
        (extracted = Fallback(request_type)) <=>
            ~ \E i \in 1..Len(lines) : \E j \in i..Len(lines) :
                QualifyingBlock(lines, i, j, request_type)

\* the required fields documented for each tool
DocumentedRequired ==
    [expr_predictor_obj_func |-> <<"parameters">>,
     expr_par_get_free_pars |->
        <<"parameters", "coopMat", "actIndicators", "repIndicators">>,
     expr_predictor_train |-> <<"initialParameters", "trainingData">>,
     expr_predictor_predict |-> <<"parameters", "sequences">>,
     expr_par_load |-> <<"filename", "coopMat", "repIndicators">>,
     expr_func_predict_expr |-> <<"sites", "length", "factorConcentrations">>]

\* C8: schema lookup succeeds for each of the six known names, with the
\* descriptor of that name and the documented required list; for every
\* other name, empty or missing ones included, it fails with an
\* unknown-tool or name-required error and gives no schema.
C8_SchemaLookup ==
    (pc = "done" /\ request.method = "tools/get_schema") =>
        LET tool_name == RequestedName(request) IN
        IF Falsy(tool_name)
        THEN /\ raised = Exc("ValueError", <<"Tool name is required">>)
             /\ ~HasKey(result, "inputSchema")
        ELSE IF tool_name.str[1] \in DOMAIN DocumentedRequired
        THEN /\ raised = NoExc
             /\ result.obj.name = tool_name
             /\ result.obj.inputSchema.obj.required =
                    A([i \in 1..Len(DocumentedRequired[tool_name.str[1]]) |->
                          S(DocumentedRequired[tool_name.str[1]][i])])
        ELSE /\ raised = Exc("ValueError", <<"Unknown tool: ", tool_name.str[1]>>)
             /\ ~HasKey(result, "inputSchema")

C8_Witness ==
    /\ pc = "done" /\ request.route = "schema"
    /\ RequestedName(request) = S("expr_par_load")
    /\ result.obj.inputSchema.obj.required =
           A(<<S("filename"), S("coopMat"), S("repIndicators")>>)

\* C9 as stated: each of the three operations (listing, describing,
\* executing) spawns the executable exactly once per request, without
\* arguments.
C9_EveryOperationSpawnsOnce ==
    (pc = "done" /\ request.method \in {"tools/list", "tools/get_schema", "tools/call"}) =>
        /\ spawns = 1
        /\ process.argv = <<"executable_path">>

\* C9 amended: listing, and executing with a non-empty name, spawn the
\* executable exactly once per request, without arguments and in the same
\* way whatever the method, name and arguments; describing a tool, and
\* executing with an empty or missing name, spawn nothing; no request
\* spawns more than once.
C9_SpawnsAtMostOnce ==
    /\ spawns <= 1
    /\ (pc \in {"waiting", "done"} /\ request.route # "root") =>
        /\ spawns = IF \/ request.method = "tools/list"
                       \/ request.method = "tools/call" /\ ~Falsy(RequestedName(request))
                    THEN 1 ELSE 0
        /\ spawns = 1 =>
            /\ process.argv = <<"executable_path">>
            /\ process.cwd = "working_directory"

C9_Witness ==
    /\ pc = "done" /\ request.route = "call"
    /\ spawns = 1 /\ process.state = "exited"

\* C10: when the subprocess of a listing or an execute operation has not
\* finished within the timeout, the process is killed, the operation fails
\* with "MCP backend timeout", nothing is scraped and neither a fallback nor
\* a backend result is returned; and every request that awaits the
\* subprocess ends.
C10_TimeoutKillsAndReports ==
    /\ []((pc = "done" /\ spawns = 1 /\ elapsed = timeout) =>
            /\ process.state = "killed"
            /\ raised = Exc("RuntimeError", <<"MCP backend timeout">>)
            /\ result = O([success |-> B(FALSE), error |-> S("MCP backend timeout")])
            /\ ~scraped
            /\ result # Fallback(RequestType(request)))
    /\ ((pc = "waiting") ~> (pc = "done"))

C10_Witness ==
    /\ pc = "done" /\ request.method = "tools/call"
    /\ elapsed = timeout /\ process.state = "killed"

\* C11: two call requests with non-empty names whose subprocess runs have
\* the same outcome get identical responses, whatever their tool names and
\* request-body arguments are.
C11_CallIgnoresNameAndArguments ==
    twin # NoValue =>
        /\ twin.response = response
        /\ twin.result = result
        /\ twin.spawns = spawns

C11_Witness ==
    /\ twin # NoValue
    /\ RequestedName(twin.request) # RequestedName(request)
    /\ twin.request.params.obj.arguments # request.params.obj.arguments
    /\ process.state = "exited" /\ process.returncode = 0
    /\ twin.response = response
    /\ HasKey(response.body, "success")
    /\ response.body.obj.success = [lit |-> "true"]

\* lines i..j of the text are a brace-started block that parses as JSON
ParseableBlock(lines, i, j) ==
    /\ startswith(strip(lines[i]), "{")
    /\ json_loads(join(SubSeq(lines, i, j))).ok

\* the blocks of the text, as pairs of a first and a last line
Blocks(lines) ==
    { b \in (1..Len(lines)) \X (1..Len(lines)) :
        b[1] <= b[2] /\ ParseableBlock(lines, b[1], b[2]) }

\* block a comes before block b in text order
Before(a, b) == a[1] < b[1] \/ (a[1] = b[1] /\ a[2] < b[2])

\* C12: when the text holds several brace-started blocks that parse as JSON,
\* the scraper returns the first of them, in text order, that has the shape
\* the request type asks for: earlier blocks without the shape are skipped,
\* a later block with the shape is still found, and a block without the
\* shape is never returned.
C12_FirstQualifyingBlockIsReturned ==
    scrPc = "returned" =>
        LET lines == split(output, NL)
            value(b) == json_loads(join(SubSeq(lines, b[1], b[2]))).val
            good == { b \in Blocks(lines) : Qualifies(request_type, value(b)) }
        IN  Cardinality(Blocks(lines)) >= 2 =>
                /\ \A b \in good :
                      (\A a \in good : a = b \/ Before(b, a)) =>
                          extracted = value(b)
                /\ \A b \in Blocks(lines) \ good : extracted # value(b)

=============================================================================
